---- MODULE Spec2Model ----
(* Resource-economy state machine of CraftingGame/script.js:             *)
(* a wallet, eight resource counters, their display elements and the      *)
(* three operations buy, craft and sell.                                  *)
EXTENDS Integers, Sequences, FiniteSets, TLC

\* ---------------------------------------------------------------- bounds
\* most items the player holds at one time
MaxHeld == 3
\* largest wallet balance explored
MaxMoney == 15
\* deepest negative stock explored
MaxDebt == 1
\* most diagnostic lines explored
MaxLog == 1
\* most purchases recorded in the ledger
MaxBought == 6

\* prices the callers pass (non-negative integers; 20 exceeds the stake)
Prices == {0, 5, 20}

\* names the callers pass to buy, craft and sell: the names each function
\* registers and names it does not ("gold" is registered nowhere)
BuyItems == {"milk", "bread", "plate", "cheese", "gold"}
CraftItems == {"milkbread", "milksandwich", "milkmeal", "cheese",
               "cheesesandwich", "milk", "gold"}
SellItems == {"milkbread", "milksandwich", "milkmeal", "cheesesandwich",
              "milk", "cheese", "gold"}

\* ------------------------------------------------------------- constants
StartMoney == 10
ErrNotRegistered == "item not registered"

VARIABLES money, milk, bread, plate,
          milkbread, milksandwich, milkmeal, cheesesandwich, cheese,
          display, milkDisplay, breadDisplay, plateDisplay,
          milkbreadDisplay, milksandwichDisplay, milkmealDisplay,
          cheeseDisplay, cheesesandwichDisplay,
          console,   \* lines written by console.error
          call,      \* the call that produced this state
          pre,       \* money, counters and console length before that call
          bought,    \* ledger: purchases that went through, per buyable
          sold       \* ledger: sells that took an item, per sellable

counters == <<milk, bread, plate, milkbread, milksandwich, milkmeal,
              cheesesandwich, cheese>>
displays == <<display, milkDisplay, breadDisplay, plateDisplay,
              milkbreadDisplay, milksandwichDisplay, milkmealDisplay,
              cheeseDisplay, cheesesandwichDisplay>>
ledger == <<bought, sold>>
vars == <<money, counters, displays, console, call, pre, ledger>>

\* variant: the element is written before the counter is updated by +1
Text_Before(n) == <<n - 1>>
\* innerHTML after `el.innerHTML = n`
Text(n) == <<n>>
\* innerHTML after `display.innerHTML = prefix + money`
MoneyText(prefix, m) == <<prefix, m>>

Snapshot == [money |-> money, milk |-> milk, bread |-> bread, plate |-> plate,
             milkbread |-> milkbread, milksandwich |-> milksandwich,
             milkmeal |-> milkmeal, cheesesandwich |-> cheesesandwich,
             cheese |-> cheese, console |-> Len(console)]

Init ==
    /\ money = StartMoney
    /\ display = MoneyText("$", StartMoney)
    /\ milk = 0 /\ bread = 0 /\ plate = 0
    /\ milkbread = 0 /\ milksandwich = 0 /\ milkmeal = 0
    /\ cheesesandwich = 0 /\ cheese = 0
    \* the page shows every counter at its starting value
    /\ milkDisplay = Text(0) /\ breadDisplay = Text(0) /\ plateDisplay = Text(0)
    /\ milkbreadDisplay = Text(0) /\ milksandwichDisplay = Text(0)
    /\ milkmealDisplay = Text(0) /\ cheeseDisplay = Text(0)
    /\ cheesesandwichDisplay = Text(0)
    /\ console = <<>>
    /\ call = [fn |-> "none", price |-> 0, item |-> ""]
    /\ pre = [money |-> StartMoney, milk |-> 0, bread |-> 0, plate |-> 0,
              milkbread |-> 0, milksandwich |-> 0, milkmeal |-> 0,
              cheesesandwich |-> 0, cheese |-> 0, console |-> 0]
    /\ bought = [r \in {"milk", "bread", "plate"} |-> 0]
    /\ sold = [r \in {"milkbread", "milksandwich", "milkmeal",
                       "cheesesandwich"} |-> 0]

\* the buyables, the resources sell has a branch for, and all eight
\* resource counters
Primary == {"milk", "bread", "plate"}
Sellable == {"milkbread", "milksandwich", "milkmeal", "cheesesandwich"}
Resources == {"milk", "bread", "plate", "milkbread", "milksandwich",
              "milkmeal", "cheesesandwich", "cheese"}

\* number of items in stock
Held(s) == s.milk + s.bread + s.plate + s.milkbread + s.milksandwich
           + s.milkmeal + s.cheese
           + (IF s.cheesesandwich > 0 THEN s.cheesesandwich ELSE 0)

\* the part of the state space that is explored
Explored(s) ==
    /\ Held(s) <= MaxHeld
    /\ s.money <= MaxMoney
    /\ \A f \in Resources : s[f] >= -MaxDebt
    /\ s.console <= MaxLog

\* bookkeeping common to the three entry points
Called(fn, price, item) ==
    /\ call' = [fn |-> fn, price |-> price, item |-> item]
    /\ pre' = Snapshot
    /\ Explored(Snapshot')

\* ------------------------------------------------------------------- buy
\* variants of the funds check: no check at all, and the comparison reversed
CanAfford_NoCheck(m, price) == TRUE
CanAfford_Reversed(m, price) == m <= price
\* `if (money >= price)`
CanAfford(m, price) == m >= price
\* variant: a flat deduction of 1
Deduct_One(m, price) == m - 1
\* `money -= price`
Deduct(m, price) == m - price
\* variant: the unregistered-item branch gives nothing back
Refund_None(m, price) == m
\* `money += price` of the unregistered-item branch
Refund(m, price) == m + price
\* variant: the counter goes up by 2
Gain_Two(n) == n + 2
\* `x += 1`
Gain(n) == n + 1

buy(price, item) ==
    /\ IF CanAfford(money, price)
       THEN IF item = "milk"
            THEN /\ money' = Deduct(money, price)
                 /\ milk' = Gain(milk)
                 /\ milkDisplay' = Text(milk')
                 /\ UNCHANGED <<bread, plate, breadDisplay, plateDisplay, console>>
            ELSE IF item = "bread"
            THEN /\ money' = Deduct(money, price)
                 /\ bread' = Gain(bread)
                 /\ breadDisplay' = Text(bread')
                 /\ UNCHANGED <<milk, plate, milkDisplay, plateDisplay, console>>
            ELSE IF item = "plate"
            THEN /\ money' = Deduct(money, price)
                 /\ plate' = Gain(plate)
                 /\ plateDisplay' = Text(plate')
                 /\ UNCHANGED <<milk, bread, milkDisplay, breadDisplay, console>>
            ELSE /\ money' = Refund(Deduct(money, price), price)
                 /\ console' = Append(console, ErrNotRegistered)
                 /\ UNCHANGED <<milk, bread, plate,
                                milkDisplay, breadDisplay, plateDisplay>>
       ELSE UNCHANGED <<money, milk, bread, plate,
                        milkDisplay, breadDisplay, plateDisplay, console>>
    /\ display' = MoneyText(" $", money')
    /\ UNCHANGED <<milkbread, milksandwich, milkmeal, cheesesandwich, cheese,
                   milkbreadDisplay, milksandwichDisplay, milkmealDisplay,
                   cheeseDisplay, cheesesandwichDisplay>>
    /\ Called("buy", price, item)

\* ----------------------------------------------------------------- craft
\* `milk > 0 && bread > 0`
CanMilkbread(mk, br) == mk > 0 /\ br > 0
\* variant: three milkbread are asked for
CanMilksandwich_Three(mb) == mb > 2
\* variant: one milkbread is enough
CanMilksandwich_One(mb) == mb > 0
\* `milkbread > 1`
CanMilksandwich(mb) == mb > 1
\* `milksandwich > 0 && milk > 0 && plate > 0`
CanMilkmeal(ms, mk, pl) == ms > 0 /\ mk > 0 /\ pl > 0
\* variant: cheese is aged from an empty milk stock
CanCheese_Empty(mk) == mk >= 0
\* `milk > 0`
CanCheese(mk) == mk > 0
\* variant: one bread is enough
CanCheesesandwich_OneBread(ch, br) == ch > 0 /\ br > 0
\* `cheese > 0 && bread > 1`
CanCheesesandwich(ch, br) == ch > 0 /\ br > 1
\* variant: always one unit is taken
Use_One(n, k) == n - 1
\* `x -= k`
Use(n, k) == n - k

craft(item) ==
    /\ IF item = "milkbread"
       THEN IF CanMilkbread(milk, bread)
            THEN /\ bread' = Use(bread, 1)
                 /\ milk' = Use(milk, 1)
                 /\ milkbread' = Gain(milkbread)
                 /\ breadDisplay' = Text(bread')
                 /\ milkDisplay' = Text(milk')
                 /\ milkbreadDisplay' = Text(milkbread')
                 /\ UNCHANGED <<plate, milksandwich, milkmeal, cheesesandwich,
                                cheese, plateDisplay, milksandwichDisplay,
                                milkmealDisplay, cheeseDisplay,
                                cheesesandwichDisplay>>
            ELSE UNCHANGED <<counters, milkDisplay, breadDisplay, plateDisplay,
                             milkbreadDisplay, milksandwichDisplay,
                             milkmealDisplay, cheeseDisplay,
                             cheesesandwichDisplay>>
       ELSE IF item = "milksandwich"
       THEN IF CanMilksandwich(milkbread)
            THEN /\ milkbread' = Use(milkbread, 2)
                 /\ milksandwich' = Gain(milksandwich)
                 /\ milkbreadDisplay' = Text(milkbread')
                 /\ milksandwichDisplay' = Text(milksandwich')
                 /\ UNCHANGED <<milk, bread, plate, milkmeal, cheesesandwich,
                                cheese, milkDisplay, breadDisplay, plateDisplay,
                                milkmealDisplay, cheeseDisplay,
                                cheesesandwichDisplay>>
            ELSE UNCHANGED <<counters, milkDisplay, breadDisplay, plateDisplay,
                             milkbreadDisplay, milksandwichDisplay,
                             milkmealDisplay, cheeseDisplay,
                             cheesesandwichDisplay>>
       ELSE IF item = "milkmeal"
       THEN IF CanMilkmeal(milksandwich, milk, plate)
            THEN /\ milksandwich' = Use(milksandwich, 1)
                 /\ milk' = Use(milk, 1)
                 /\ plate' = Use(plate, 1)
                 /\ milkmeal' = Gain(milkmeal)
                 /\ milksandwichDisplay' = Text(milksandwich')
                 /\ milkDisplay' = Text(milk')
                 /\ plateDisplay' = Text(plate')
                 /\ milkmealDisplay' = Text(milkmeal')
                 /\ UNCHANGED <<bread, milkbread, cheesesandwich, cheese,
                                breadDisplay, milkbreadDisplay, cheeseDisplay,
                                cheesesandwichDisplay>>
            ELSE UNCHANGED <<counters, milkDisplay, breadDisplay, plateDisplay,
                             milkbreadDisplay, milksandwichDisplay,
                             milkmealDisplay, cheeseDisplay,
                             cheesesandwichDisplay>>
       ELSE IF item = "cheese"
       THEN IF CanCheese(milk)
            THEN /\ milk' = Use(milk, 1)
                 /\ cheese' = Gain(cheese)
                 /\ milkDisplay' = Text(milk')
                 /\ cheeseDisplay' = Text(cheese')
                 /\ UNCHANGED <<bread, plate, milkbread, milksandwich, milkmeal,
                                cheesesandwich, breadDisplay, plateDisplay,
                                milkbreadDisplay, milksandwichDisplay,
                                milkmealDisplay, cheesesandwichDisplay>>
            ELSE UNCHANGED <<counters, milkDisplay, breadDisplay, plateDisplay,
                             milkbreadDisplay, milksandwichDisplay,
                             milkmealDisplay, cheeseDisplay,
                             cheesesandwichDisplay>>
       ELSE IF item = "cheesesandwich"
       THEN IF CanCheesesandwich(cheese, bread)
            THEN /\ cheese' = Use(cheese, 1)
                 /\ bread' = Use(bread, 2)
                 /\ cheesesandwich' = Gain(cheesesandwich)
                 /\ cheeseDisplay' = Text(cheese')
                 /\ breadDisplay' = Text(bread')
                 /\ cheesesandwichDisplay' = Text(cheesesandwich')
                 /\ UNCHANGED <<milk, plate, milkbread, milksandwich, milkmeal,
                                milkDisplay, plateDisplay, milkbreadDisplay,
                                milksandwichDisplay, milkmealDisplay>>
            ELSE UNCHANGED <<counters, milkDisplay, breadDisplay, plateDisplay,
                             milkbreadDisplay, milksandwichDisplay,
                             milkmealDisplay, cheeseDisplay,
                             cheesesandwichDisplay>>
       ELSE UNCHANGED <<counters, milkDisplay, breadDisplay, plateDisplay,
                        milkbreadDisplay, milksandwichDisplay,
                        milkmealDisplay, cheeseDisplay, cheesesandwichDisplay>>
    /\ UNCHANGED <<money, display, console>>
    /\ Called("craft", 0, item)

\* ------------------------------------------------------------------ sell
\* variant: an empty stock passes the guard
InStock_OrEmpty(n) == n >= 0
\* `x > 0` guarding the milkbread, milksandwich and milkmeal branches
InStock(n) == n > 0
\* variant: the payout is credited twice
Payout_Twice(m, price) == m + price + price
\* variant: a flat payout of 1
Payout_One(m, price) == m + 1
\* `money += price`
Payout(m, price) == m + price

\* variant: the cheesesandwich branch written as a plain `else`
sell_ElseBranch(price, item) ==
    LET taken == IF item = "milkbread" THEN InStock(milkbread)
                ELSE IF item = "milksandwich" THEN InStock(milksandwich)
                ELSE IF item = "milkmeal" THEN InStock(milkmeal)
                ELSE TRUE
    IN  /\ milkbread' = IF item = "milkbread" /\ taken
                        THEN Use(milkbread, 1) ELSE milkbread
        /\ milksandwich' = IF item = "milksandwich" /\ taken
                           THEN Use(milksandwich, 1) ELSE milksandwich
        /\ milkmeal' = IF item = "milkmeal" /\ taken
                       THEN Use(milkmeal, 1) ELSE milkmeal
        /\ cheesesandwich' =
              IF item \notin {"milkbread", "milksandwich", "milkmeal"}
              THEN Use(cheesesandwich, 1) ELSE cheesesandwich
        /\ money' = IF taken THEN Payout(money, price) ELSE money
        /\ display' = IF taken THEN MoneyText("$", money') ELSE display
        /\ milkbreadDisplay' = Text(milkbread')
        /\ milksandwichDisplay' = Text(milksandwich')
        /\ milkmealDisplay' = Text(milkmeal')
        /\ cheesesandwichDisplay' = Text(cheesesandwich')
        /\ UNCHANGED <<milk, bread, plate, cheese, milkDisplay, breadDisplay,
                       plateDisplay, cheeseDisplay, console>>
        /\ Called("sell", price, item)

sell(price, item) ==
    /\ IF item = "milkbread"
       THEN IF InStock(milkbread)
            THEN /\ milkbread' = Use(milkbread, 1)
                 /\ money' = Payout(money, price)
                 /\ milkbreadDisplay' = Text(milkbread')
                 /\ display' = MoneyText("$", money')
                 /\ UNCHANGED <<milksandwich, milkmeal, cheesesandwich,
                                milksandwichDisplay, milkmealDisplay,
                                cheesesandwichDisplay>>
            ELSE UNCHANGED <<money, display, milkbread, milksandwich, milkmeal,
                             cheesesandwich, milkbreadDisplay,
                             milksandwichDisplay, milkmealDisplay,
                             cheesesandwichDisplay>>
       ELSE IF item = "milksandwich"
       THEN IF InStock(milksandwich)
            THEN /\ milksandwich' = Use(milksandwich, 1)
                 /\ money' = Payout(money, price)
                 /\ milksandwichDisplay' = Text(milksandwich')
                 /\ display' = MoneyText("$", money')
                 /\ UNCHANGED <<milkbread, milkmeal, cheesesandwich,
                                milkbreadDisplay, milkmealDisplay,
                                cheesesandwichDisplay>>
            ELSE UNCHANGED <<money, display, milkbread, milksandwich, milkmeal,
                             cheesesandwich, milkbreadDisplay,
                             milksandwichDisplay, milkmealDisplay,
                             cheesesandwichDisplay>>
       ELSE IF item = "milkmeal"
       THEN IF InStock(milkmeal)
            THEN /\ milkmeal' = Use(milkmeal, 1)
                 /\ money' = Payout(money, price)
                 /\ milkmealDisplay' = Text(milkmeal')
                 /\ display' = MoneyText("$", money')
                 /\ UNCHANGED <<milkbread, milksandwich, cheesesandwich,
                                milkbreadDisplay, milksandwichDisplay,
                                cheesesandwichDisplay>>
            ELSE UNCHANGED <<money, display, milkbread, milksandwich, milkmeal,
                             cheesesandwich, milkbreadDisplay,
                             milksandwichDisplay, milkmealDisplay,
                             cheesesandwichDisplay>>
       ELSE IF item = "cheesesandwich"
       THEN /\ cheesesandwich' = Use(cheesesandwich, 1)
            /\ money' = Payout(money, price)
            /\ cheesesandwichDisplay' = Text(cheesesandwich')
            /\ display' = MoneyText("$", money')
            /\ UNCHANGED <<milkbread, milksandwich, milkmeal,
                           milkbreadDisplay, milksandwichDisplay,
                           milkmealDisplay>>
       ELSE UNCHANGED <<money, display, milkbread, milksandwich, milkmeal,
                        cheesesandwich, milkbreadDisplay, milksandwichDisplay,
                        milkmealDisplay, cheesesandwichDisplay>>
    /\ UNCHANGED <<milk, bread, plate, cheese, milkDisplay, breadDisplay,
                   plateDisplay, cheeseDisplay, console>>
    /\ Called("sell", price, item)

\* the ledger is kept in the ledger sessions only
Next ==
    \/ \E p \in Prices, i \in BuyItems : buy(p, i) /\ UNCHANGED ledger
    \/ \E i \in CraftItems : craft(i) /\ UNCHANGED ledger
    \/ \E p \in Prices, i \in SellItems : sell(p, i) /\ UNCHANGED ledger

Spec == Init /\ [][Next]_vars
\* The sessions of the recipe chain: the player buys milk, bread and plates
\* at 1 and crafts milkbread, milksandwich and milkmeal, in any order.
ChainBuys == {"milk", "bread", "plate"}
ChainCrafts == {"milkbread", "milksandwich", "milkmeal"}
ChainNext ==
    \/ \E i \in ChainBuys : buy(1, i) /\ UNCHANGED ledger
    \/ \E i \in ChainCrafts : craft(i) /\ UNCHANGED ledger

SpecChain == Init /\ [][ChainNext]_vars

\* The ledger sessions: the three operations on registered names, with
\* every purchase that went through and every sell that took an item
\* written to the ledger.
LedgerBuyPrices == {0, 5, 20}
LedgerSellPrices == {0, 5}
LedgerCrafts == {"milkbread", "milksandwich", "milkmeal", "cheese",
                 "cheesesandwich"}
Count(f) == f["milk"] + f["bread"] + f["plate"]

LedgerBuy(price, item) ==
    /\ buy(price, item)
    /\ bought' = IF money >= price
                 THEN [bought EXCEPT ![item] = @ + 1] ELSE bought
    /\ Count(bought') <= MaxBought
    /\ UNCHANGED sold

LedgerCraft(item) ==
    /\ craft(item)
    /\ UNCHANGED ledger

LedgerSell(price, item) ==
    /\ sell(price, item)
    /\ sold' = IF Snapshot'[item] < Snapshot[item]
               THEN [sold EXCEPT ![item] = @ + 1] ELSE sold
    /\ UNCHANGED bought

LedgerNext ==
    \/ \E p \in LedgerBuyPrices, i \in Primary : LedgerBuy(p, i)
    \/ \E i \in LedgerCrafts : LedgerCraft(i)
    \/ \E p \in LedgerSellPrices, i \in Sellable : LedgerSell(p, i)

SpecLedger == Init /\ [][LedgerNext]_vars

\* the recipe table: recipe name -> required quantity of each input
RecipeInputs ==
    [milkbread      |-> [milk |-> 1, bread |-> 1],
     milksandwich   |-> [milkbread |-> 2],
     milkmeal       |-> [milksandwich |-> 1, milk |-> 1, plate |-> 1],
     cheese         |-> [milk |-> 1],
     cheesesandwich |-> [cheese |-> 1, bread |-> 2]]
Recipes == DOMAIN RecipeInputs
Need(r, f) == IF f \in DOMAIN RecipeInputs[r] THEN RecipeInputs[r][f] ELSE 0

\* every input of recipe r is held in state s in its required quantity
Eligible(r, s) == \A f \in DOMAIN RecipeInputs[r] : s[f] >= RecipeInputs[r][f]

\* money and the eight counters of s and t agree
SameEconomy(s, t) ==
    /\ s.money = t.money
    /\ \A f \in Resources : s[f] = t[f]

\* the last call was recipe r applied once: inputs down, output up by one
Applied(r) ==
    /\ money = pre.money
    /\ \A f \in Resources :
          Snapshot[f] = pre[f] - Need(r, f) + (IF f = r THEN 1 ELSE 0)

\* C1: money and every one of the eight resource counters is >= 0 in every
\* state reachable from money = 10 and all counters 0.
C1_AllNonNegative ==
    /\ money >= 0
    /\ \A f \in Resources : Snapshot[f] >= 0

\* C2: buy never leaves the wallet negative: after buy(price, item) with
\* price >= 0, called with money >= 0, money >= 0.
C2_BuyKeepsWalletNonNegative ==
    (call.fn = "buy" /\ pre.money >= 0 /\ call.price >= 0) => money >= 0

C2_Witness ==
    /\ call.fn = "buy" /\ call.item \in Primary
    /\ call.price = 5 /\ pre.money = 5 /\ money = 0

\* C3: buy(price, r) with r a buyable and 0 <= price <= money deducts exactly
\* price, adds exactly 1 to counter r and leaves every other counter alone.
C3_BuyPrimary ==
    (/\ call.fn = "buy" /\ call.item \in Primary
     /\ 0 <= call.price /\ call.price <= pre.money)
    => /\ money = pre.money - call.price
       /\ Snapshot[call.item] = pre[call.item] + 1
       /\ \A f \in Resources \ {call.item} : Snapshot[f] = pre[f]

C3_Witness ==
    /\ call.fn = "buy" /\ call.item = "plate"
    /\ call.price = 5 /\ pre.money = 10 /\ pre.plate = 1 /\ plate = 2

\* C4: buy(price, item) with money < price changes neither money nor any
\* of the eight counters, whatever the item name.
C4_BuyUnaffordable ==
    (call.fn = "buy" /\ pre.money < call.price) => SameEconomy(Snapshot, pre)

C4_Witness ==
    /\ call.fn = "buy" /\ call.item = "milk"
    /\ call.price = 5 /\ pre.money = 0 /\ Held(pre) < MaxHeld

\* C5: buy(price, item) with item not a buyable changes neither money nor
\* any of the eight counters, whether or not money >= price.
C5_BuyUnknown ==
    (call.fn = "buy" /\ call.item \notin Primary) => SameEconomy(Snapshot, pre)

C5_Witness ==
    /\ call.fn = "buy" /\ call.item = "cheese"
    /\ call.price = 5 /\ pre.money >= 5 /\ Len(console) = pre.console + 1

\* C6: every buy(price, item) with item not a buyable writes the
\* diagnostic, also when money < price.
C6_BuyUnknownSignals ==
    (call.fn = "buy" /\ call.item \notin Primary)
    => /\ Len(console) = pre.console + 1
       /\ console[Len(console)] = ErrNotRegistered

\* C7: craft(r), r one of the five recipes, applies the recipe (each input
\* down by its quantity, output up by 1, nothing else changed) when every
\* input is held in its required quantity, and only then.
C7_CraftApplied ==
    (call.fn = "craft" /\ call.item \in Recipes)
    => (Eligible(call.item, pre) <=> Applied(call.item))

C7_Witness ==
    /\ call.fn = "craft" /\ call.item = "milkmeal"
    /\ Eligible("milkmeal", pre) /\ milkmeal = pre.milkmeal + 1

\* C8: craft(r) with some input below its required quantity changes neither
\* money nor any counter; no input that is available is consumed.
C8_CraftIneligible ==
    (call.fn = "craft" /\ call.item \in Recipes /\ ~Eligible(call.item, pre))
    => SameEconomy(Snapshot, pre)

C8_Witness ==
    /\ call.fn = "craft" /\ call.item = "cheesesandwich"
    /\ pre.cheese >= 1 /\ pre.bread = 1

\* C9: sell(price, r) with r one of milkbread, milksandwich, milkmeal,
\* cheesesandwich and counter r >= 1 takes exactly 1 from counter r, adds
\* exactly price to money and leaves every other counter alone.
C9_SellInStock ==
    (/\ call.fn = "sell" /\ call.item \in Sellable
     /\ pre[call.item] >= 1 /\ call.price >= 0)
    => /\ Snapshot[call.item] = pre[call.item] - 1
       /\ money = pre.money + call.price
       /\ \A f \in Resources \ {call.item} : Snapshot[f] = pre[f]

C9_Witness ==
    /\ call.fn = "sell" /\ call.item = "milkmeal"
    /\ pre.milkmeal >= 1 /\ call.price = 5 /\ money = pre.money + 5

\* C10: sell(price, r) with r one of milkbread, milksandwich, milkmeal and
\* counter r = 0 changes neither money nor any counter.
C10_SellOutOfStock ==
    (/\ call.fn = "sell"
     /\ call.item \in {"milkbread", "milksandwich", "milkmeal"}
     /\ pre[call.item] = 0)
    => SameEconomy(Snapshot, pre)

C10_Witness ==
    /\ call.fn = "sell" /\ call.item = "milksandwich"
    /\ pre.milksandwich = 0 /\ call.price = 5 /\ pre.milkbread >= 1
\* C11: sell(price, 'cheesesandwich') with cheesesandwich = 0 is rejected:
\* the counter is not driven below zero and money is not increased.
C11_SellCheesesandwichOutOfStock ==
    (/\ call.fn = "sell" /\ call.item = "cheesesandwich"
     /\ pre.cheesesandwich = 0)
    => /\ cheesesandwich >= 0
       /\ money <= pre.money

\* C12: craft(name) with name not a recipe, and sell(price, name) with name
\* not one of the four sellable resources, change neither money nor any of
\* the eight counters.
C12_UnknownNameNoOp ==
    (\/ call.fn = "craft" /\ call.item \notin Recipes
     \/ call.fn = "sell" /\ call.item \notin Sellable)
    => SameEconomy(Snapshot, pre)

C12_Witness ==
    /\ call.fn = "sell" /\ call.item = "cheese" /\ call.price = 5
    /\ pre.cheese >= 1 /\ pre.money = 10

\* C13: every craft(name) with name not a recipe and every sell(price, name)
\* with name not a sellable resource writes a diagnostic.
C13_UnknownNameSignals ==
    (\/ call.fn = "craft" /\ call.item \notin Recipes
     \/ call.fn = "sell" /\ call.item \notin Sellable)
    => Len(console) = pre.console + 1
\* C14: money changes only by buy, by exactly -price, and by sell, by
\* exactly +price; craft never changes money.
C14_MoneyOnlyBuySell ==
    /\ call.fn = "craft" => money = pre.money
    /\ call.fn = "buy" => money \in {pre.money, pre.money - call.price}
    /\ call.fn = "sell" => money \in {pre.money, pre.money + call.price}

C14_Witness ==
    /\ call.fn = "craft" /\ call.item = "milksandwich"
    /\ milksandwich = pre.milksandwich + 1 /\ money = 5
\* the craftables
Crafted == {"milkbread", "milksandwich", "milkmeal", "cheese",
            "cheesesandwich"}

\* C15 as stated: a crafted resource counter changes only by a recipe
\* application of craft; buy and sell never change one (stated for the
\* calls that leave every counter >= 0).
C15_OnlyRecipesChangeCrafted ==
    /\ (call.fn \in {"buy", "sell"} /\ \A f \in Resources : Snapshot[f] >= 0)
          => \A f \in Crafted : Snapshot[f] = pre[f]
    /\ call.fn = "craft" =>
          \/ \A f \in Crafted : Snapshot[f] = pre[f]
          \/ call.item \in Recipes /\ Applied(call.item)

\* C15 (amended): a crafted resource counter changes only by a recipe
\* application of craft, or by sell(price, r) taking exactly 1 from counter
\* r, r one of the four sellable resources; buy never changes one.
C15_CraftedChangeByCraftOrSell ==
    /\ call.fn = "buy" => \A f \in Crafted : Snapshot[f] = pre[f]
    /\ call.fn = "sell" =>
          \A f \in Crafted :
             \/ Snapshot[f] = pre[f]
             \/ f = call.item /\ f \in Sellable /\ Snapshot[f] = pre[f] - 1
    /\ call.fn = "craft" =>
          \/ \A f \in Crafted : Snapshot[f] = pre[f]
          \/ call.item \in Recipes /\ Applied(call.item)

C15_Witness ==
    /\ call.fn = "sell" /\ call.item = "milksandwich"
    /\ pre.milksandwich = 1 /\ milksandwich = 0

\* the number an element shows, and the amount the money element shows
\* behind its currency prefix
Shown(el) == el[1]
ShownMoney(el) == el[2]
DisplayOf ==
    [milk |-> milkDisplay, bread |-> breadDisplay, plate |-> plateDisplay,
     milkbread |-> milkbreadDisplay, milksandwich |-> milksandwichDisplay,
     milkmeal |-> milkmealDisplay, cheese |-> cheeseDisplay,
     cheesesandwich |-> cheesesandwichDisplay]

\* C16: after a call that changed money or a counter, the money element
\* shows the current money and the element of every counter the call
\* changed shows that counter's current value.
C16_DisplaysCurrent ==
    (call.fn # "none" /\ ~SameEconomy(Snapshot, pre))
    => /\ ShownMoney(display) = money
       /\ Len(display) = 2 /\ display[1] \in {"$", " $"}
       /\ \A f \in Resources :
             Snapshot[f] # pre[f] =>
                /\ Len(DisplayOf[f]) = 1
                /\ Shown(DisplayOf[f]) = Snapshot[f]

C16_Witness ==
    /\ call.fn = "craft" /\ call.item = "milkmeal"
    /\ milkmeal = pre.milkmeal + 1
    /\ Shown(milkDisplay) = milk /\ Shown(milkmealDisplay) = milkmeal

\* C18: milk, bread, plate, milkbread, milksandwich, milkmeal and cheese are
\* >= 0 in every reachable state; a negative value is reachable for
\* cheesesandwich only.
C18_SevenNonNegative ==
    \A f \in Resources \ {"cheesesandwich"} : Snapshot[f] >= 0

C18_Witness ==
    /\ call.fn = "sell" /\ call.item = "cheesesandwich"
    /\ cheesesandwich < 0
\* the calls of the recipe chain, in order
ChainCalls ==
    << [fn |-> "buy", price |-> 1, item |-> "milk"],
       [fn |-> "buy", price |-> 1, item |-> "bread"],
       [fn |-> "craft", price |-> 0, item |-> "milkbread"],
       [fn |-> "craft", price |-> 0, item |-> "milksandwich"],
       [fn |-> "buy", price |-> 1, item |-> "milk"],
       [fn |-> "buy", price |-> 1, item |-> "bread"],
       [fn |-> "craft", price |-> 0, item |-> "milkbread"],
       [fn |-> "craft", price |-> 0, item |-> "milksandwich"] >>

\* money, milk, bread, milkbread, milksandwich before the chain and after
\* each of its calls; the other counters are 0 throughout
ChainStates ==
    << <<10, 0, 0, 0, 0>>,
       <<9, 1, 0, 0, 0>>, <<8, 1, 1, 0, 0>>, <<8, 0, 0, 1, 0>>,
       <<8, 0, 0, 1, 0>>,
       <<7, 1, 0, 1, 0>>, <<6, 1, 1, 1, 0>>, <<6, 0, 0, 2, 0>>,
       <<6, 0, 0, 0, 1>> >>

ChainAt(k) ==
    /\ <<money, milk, bread, milkbread, milksandwich>> = ChainStates[k + 1]
    /\ plate = 0 /\ milkmeal = 0 /\ cheese = 0 /\ cheesesandwich = 0

\* C17: from money = 10 and all counters 0, the calls buy(1,'milk'),
\* buy(1,'bread'), craft('milkbread'), craft('milksandwich'), and the same
\* four again, pass through milk=1/money=9, bread=1/money=8, milkbread=1,
\* a no-op, then milkbread=2, and end at milkbread=0, milksandwich=1,
\* money=6: each call of the chain takes its state to the next one.
C17_RecipeChain ==
    [][\A k \in 1..Len(ChainCalls) :
          (ChainAt(k - 1) /\ call' = ChainCalls[k]) => ChainAt(k)']_vars

C17_Witness ==
    /\ ChainAt(8) /\ call = ChainCalls[8]
    /\ pre.money = 6 /\ pre.milkbread = 2 /\ pre.milksandwich = 0
\* C19: with B counting the purchases that went through and S the sells
\* that took an item, every reachable state has
\*   B[plate] = plate + milkmeal + S[milkmeal],
\*   B[bread] = bread + milkbread + 2*(milksandwich + milkmeal
\*              + cheesesandwich) + S[milkbread] + 2*(S[milksandwich]
\*              + S[milkmeal] + S[cheesesandwich]),
\*   B[milk]  = milk + cheese + milkbread + 2*milksandwich + 3*milkmeal
\*              + cheesesandwich + S[milkbread] + 2*S[milksandwich]
\*              + 3*S[milkmeal] + S[cheesesandwich].
C19_MaterialConservation ==
    /\ bought["plate"] = plate + milkmeal + sold["milkmeal"]
    /\ bought["bread"] = bread + milkbread + 2 * milksandwich + 2 * milkmeal
                         + 2 * cheesesandwich + sold["milkbread"]
                         + 2 * sold["milksandwich"] + 2 * sold["milkmeal"]
                         + 2 * sold["cheesesandwich"]
    /\ bought["milk"] = milk + cheese + milkbread + 2 * milksandwich
                        + 3 * milkmeal + cheesesandwich + sold["milkbread"]
                        + 2 * sold["milksandwich"] + 3 * sold["milkmeal"]
                        + sold["cheesesandwich"]

C19_Witness ==
    /\ call.fn = "sell" /\ call.item = "milkmeal"
    /\ sold["milkmeal"] = 1 /\ bought["milk"] = 3 /\ bought["bread"] = 2
    /\ bought["plate"] = 1
====
